---------------------------- MODULE Spec2Model ----------------------------
(***************************************************************************)
(* A model of pw_software_update's UpdateBundleAccessor                    *)
(* (src/pw_software_update/update_bundle_accessor.cc): the open / verify / *)
(* close lifecycle of the accessor, the TUF-style verification pipeline    *)
(* (UpgradeRoot, VerifyTargetsMetadata, VerifyTargetsPayloads) and the     *)
(* signature threshold check VerifyMetadataSignatures.                     *)
(*                                                                         *)
(* Abstractions.                                                           *)
(*  - A protobuf view is a record; a field that is absent carries the      *)
(*    status the accessor would report in its "st" field.                  *)
(*  - A key is named by a small number; the key id of key k is k.  A       *)
(*    signature records the private key that produced it over the message  *)
(*    it is attached to ("signer", 0 for bytes no key produced), so that   *)
(*    ECDSA verification under a public key is equality with the signer.   *)
(*  - SHA-256 is a collision-free encoding of the hashed bytes.            *)
(*  - The build is the default one: bundle verification is compiled in     *)
(*    (DISABLE_BUNDLE_VERIFICATION is FALSE); personalization is a         *)
(*    configuration value fixed at construction.                           *)
(*  - Every backend call (blob store, reader, root and manifest storage)   *)
(*    may fail; one call per operation is chosen to fail ("fault").        *)
(***************************************************************************)
EXTENDS Integers, Sequences, FiniteSets, TLC

VARIABLES
    bundle_verified_,       \* UpdateBundleAccessor::bundle_verified_
    reader_open,            \* blob_store_reader_.IsOpen()
    bundle_status,          \* bundle_.status(): the view built by DoOpen
    trusted_root_,          \* UpdateBundleAccessor::trusted_root_
    disable_verification_,  \* UpdateBundleAccessor::disable_verification_
    personalization,        \* PW_SOFTWARE_UPDATE_WITH_PERSONALIZATION
    blob,                   \* the bundle bytes held by the blob store
    device_root,            \* backend: the persisted trusted root
    device_manifest,        \* backend: the persisted manifest
    last_op,                \* the public operation that ran last
    last_status,            \* the status it returned
    last_value,             \* the value it returned, when it returns one
    calls,                  \* backend calls and stage marks of that operation
    prior_root,             \* device_root as it was when that operation began
    ok_since_close,         \* an OpenAndVerify returned Ok and no Close ran since
    vm_in,                  \* inputs of VerifyMetadataSignatures (SpecSig)
    vm_out                  \* its result (SpecSig)

vars == <<bundle_verified_, reader_open, bundle_status, trusted_root_,
          disable_verification_, personalization, blob, device_root,
          device_manifest, last_op, last_status, last_value, calls,
          prior_root, ok_since_close, vm_in, vm_out>>

accessor_vars == <<bundle_verified_, reader_open, bundle_status, trusted_root_,
                   disable_verification_, personalization, blob, device_root,
                   device_manifest, last_op, last_status, last_value, calls,
                   prior_root, ok_since_close>>

---------------------------------------------------------------------------
(* Bounds of the model. *)

\* Longest signature list of a bundle's metadata.
MaxSigs == 2
\* Largest metadata version.
MaxVersion == 2
\* Most target files in a manifest.
MaxTargets == 1

(* Program constants, scaled down. *)

\* pw::crypto::sha256::kDigestSizeBytes, the size of key_id_buf.
kDigestSizeBytes == 32
\* PW_SOFTWARE_UPDATE_MAX_TARGET_PAYLOAD_SIZE (scaled down).
MAX_TARGET_PAYLOAD_SIZE == 2
\* MAX_TARGET_NAME_LENGTH (scaled down).
MAX_TARGET_NAME_LENGTH == 2
\* PW_SOFTWARE_UPDATE_DISABLE_BUNDLE_VERIFICATION of the default build.
DISABLE_BUNDLE_VERIFICATION == FALSE

\* The keys: key k has key id k and public key value k.
KeyIds == {1, 2}

\* The status a failing backend call returns.
kBackendError == "DataLoss"

---------------------------------------------------------------------------
(* Views of the bundle's messages. *)

Sig(key_id, size, signer) ==
    [key_id |-> key_id, size |-> size, signer |-> signer]

Requirement(threshold, key_ids) ==
    [threshold |-> threshold, key_ids |-> key_ids]

\* A SignedRootMetadata view: status, RootMetadata content, signatures.
SignedRoot(version, keys, root_req, targets_req, sigs) ==
    [st |-> "Ok", version |-> version, keys |-> keys, root_req |-> root_req,
     targets_req |-> targets_req, sigs |-> sigs]

\* A root view whose accessor failed with status st.
FailedRoot(st) ==
    [st |-> st, version |-> 0, keys |-> [k \in KeyIds |-> 0],
     root_req |-> Requirement(0, {}), targets_req |-> Requirement(0, {}),
     sigs |-> <<>>]

\* A TargetFile: sha256 is the digest of its SHA256 hash entry, 0 without one.
TargetFile(file_name, length, sha256) ==
    [file_name |-> file_name, length |-> length, sha256 |-> sha256]

\* A SignedTargetsMetadata / manifest view.
Targets(version, target_files, sigs) ==
    [st |-> "Ok", version |-> version, target_files |-> target_files,
     sigs |-> sigs]

FailedTargets(st) ==
    [st |-> st, version |-> 0, target_files |-> <<>>, sigs |-> <<>>]

\* An entry of the target_payloads map.
Payload(bytes) == [present |-> TRUE, bytes |-> bytes]
NoPayload == [present |-> FALSE, bytes |-> <<>>]

---------------------------------------------------------------------------
(* Crypto primitives. *)

\* crypto::sha256::Hash: a collision-free digest (>= 1) of bytes over 1..2.
RECURSIVE Sha256(_)
Sha256(bytes) ==
    IF bytes = <<>> THEN 1 ELSE bytes[1] + 3 * Sha256(Tail(bytes))

\* VerifyEcdsaSignature: the signature verifies under public_key iff that
\* key's owner produced it over the message being checked.
VerifyEcdsaSignature(public_key, signature) ==
    signature.signer # 0 /\ signature.signer = public_key

---------------------------------------------------------------------------
(* Signature verification. *)

\* The signature loop that compares verified_count with the threshold
\* before it counts the signature just verified.
RECURSIVE VerifySignaturesFrom_LateCount(_, _, _, _, _, _)
VerifySignaturesFrom_LateCount(signatures, i, verified_count, total_signatures, signature_requirement, key_mapping) ==
    IF i > Len(signatures)
    THEN IF total_signatures = 0 THEN "NotFound" ELSE "Unauthenticated"
    ELSE LET signature == signatures[i]
             total == total_signatures + 1
             key_id_is_allowed ==
                 signature.key_id \in signature_requirement.key_ids
             key_val == key_mapping[signature.key_id]
         IN  IF signature.size # kDigestSizeBytes THEN "Internal"
             ELSE IF ~key_id_is_allowed
             THEN VerifySignaturesFrom_LateCount(signatures, i + 1, verified_count,
                                       total, signature_requirement,
                                       key_mapping)
             ELSE IF key_val = 0 THEN "NotFound"
             ELSE IF VerifyEcdsaSignature(key_val, signature)
             THEN IF verified_count = signature_requirement.threshold
                  THEN "Ok"
                  ELSE VerifySignaturesFrom_LateCount(signatures, i + 1,
                                            verified_count + 1, total,
                                            signature_requirement,
                                            key_mapping)
             ELSE VerifySignaturesFrom_LateCount(signatures, i + 1, verified_count,
                                       total, signature_requirement,
                                       key_mapping)

\* The signature loop that takes every key id for allowed.
RECURSIVE VerifySignaturesFrom_AnyKey(_, _, _, _, _, _)
VerifySignaturesFrom_AnyKey(signatures, i, verified_count, total_signatures, signature_requirement, key_mapping) ==
    IF i > Len(signatures)
    THEN IF total_signatures = 0 THEN "NotFound" ELSE "Unauthenticated"
    ELSE LET signature == signatures[i]
             total == total_signatures + 1
             key_id_is_allowed == TRUE
             key_val == key_mapping[signature.key_id]
         IN  IF signature.size # kDigestSizeBytes THEN "Internal"
             ELSE IF ~key_id_is_allowed
             THEN VerifySignaturesFrom_AnyKey(signatures, i + 1, verified_count,
                                       total, signature_requirement,
                                       key_mapping)
             ELSE IF key_val = 0 THEN "NotFound"
             ELSE IF VerifyEcdsaSignature(key_val, signature)
             THEN IF verified_count + 1 = signature_requirement.threshold
                  THEN "Ok"
                  ELSE VerifySignaturesFrom_AnyKey(signatures, i + 1,
                                            verified_count + 1, total,
                                            signature_requirement,
                                            key_mapping)
             ELSE VerifySignaturesFrom_AnyKey(signatures, i + 1, verified_count,
                                       total, signature_requirement,
                                       key_mapping)

\* The signature loop that counts the signatures of one key id once.
RECURSIVE VerifySignaturesFrom_CountKeyOnce(_, _, _, _, _, _)
VerifySignaturesFrom_CountKeyOnce(signatures, i, verified_count, total_signatures, signature_requirement, key_mapping) ==
    IF i > Len(signatures)
    THEN IF total_signatures = 0 THEN "NotFound" ELSE "Unauthenticated"
    ELSE LET signature == signatures[i]
             total == total_signatures + 1
             key_id_is_allowed ==
                 signature.key_id \in signature_requirement.key_ids
             key_val == key_mapping[signature.key_id]
             counted_before ==
                 \E j \in 1..(i - 1) :
                     /\ signatures[j].key_id = signature.key_id
                     /\ VerifyEcdsaSignature(key_val, signatures[j])
         IN  IF signature.size # kDigestSizeBytes THEN "Internal"
             ELSE IF ~key_id_is_allowed
             THEN VerifySignaturesFrom_CountKeyOnce(signatures, i + 1,
                                                    verified_count, total,
                                                    signature_requirement,
                                                    key_mapping)
             ELSE IF key_val = 0 THEN "NotFound"
             ELSE IF VerifyEcdsaSignature(key_val, signature) /\ ~counted_before
             THEN IF verified_count + 1 = signature_requirement.threshold
                  THEN "Ok"
                  ELSE VerifySignaturesFrom_CountKeyOnce(
                           signatures, i + 1, verified_count + 1, total,
                           signature_requirement, key_mapping)
             ELSE VerifySignaturesFrom_CountKeyOnce(signatures, i + 1,
                                                    verified_count, total,
                                                    signature_requirement,
                                                    key_mapping)

\* The signature loop of VerifyMetadataSignatures from signature i on, with
\* the counters verified_count and total_signatures as they stand.
RECURSIVE VerifySignaturesFrom(_, _, _, _, _, _)
VerifySignaturesFrom(signatures, i, verified_count, total_signatures, signature_requirement, key_mapping) ==
    IF i > Len(signatures)
    THEN IF total_signatures = 0 THEN "NotFound" ELSE "Unauthenticated"
    ELSE LET signature == signatures[i]
             total == total_signatures + 1
             key_id_is_allowed ==
                 signature.key_id \in signature_requirement.key_ids
             key_val == key_mapping[signature.key_id]
         IN  IF signature.size # kDigestSizeBytes THEN "Internal"
             ELSE IF ~key_id_is_allowed
             THEN VerifySignaturesFrom(signatures, i + 1, verified_count,
                                       total, signature_requirement,
                                       key_mapping)
             ELSE IF key_val = 0 THEN "NotFound"
             ELSE IF VerifyEcdsaSignature(key_val, signature)
             THEN IF verified_count + 1 = signature_requirement.threshold
                  THEN "Ok"
                  ELSE VerifySignaturesFrom(signatures, i + 1,
                                            verified_count + 1, total,
                                            signature_requirement,
                                            key_mapping)
             ELSE VerifySignaturesFrom(signatures, i + 1, verified_count,
                                       total, signature_requirement,
                                       key_mapping)

\* VerifyMetadataSignatures: the status for the signatures attached to a
\* message, under a signature requirement and a key mapping (key id -> key
\* value, 0 where the map has no entry).
VerifyMetadataSignatures(signatures, signature_requirement, key_mapping) ==
    VerifySignaturesFrom(signatures, 1, 0, 0, signature_requirement,
                         key_mapping)

\* VerifyRootMetadataSignatures that takes the key mapping and the
\* requirement from new_root instead of trusted_root.
VerifyRootMetadataSignatures_UnderNew(trusted_root, new_root) ==
    IF trusted_root.st # "Ok" THEN trusted_root.st
    ELSE IF new_root.st # "Ok" THEN new_root.st
    ELSE VerifyMetadataSignatures(new_root.sigs, new_root.root_req,
                                  new_root.keys)

\* VerifyRootMetadataSignatures: new_root's signatures under trusted_root's
\* key mapping and root signature requirement.
VerifyRootMetadataSignatures(trusted_root, new_root) ==
    IF trusted_root.st # "Ok" THEN trusted_root.st
    ELSE IF new_root.st # "Ok" THEN new_root.st
    ELSE VerifyMetadataSignatures(new_root.sigs, trusted_root.root_req,
                                  trusted_root.keys)

\* GetMetadataVersion: common_metadata.version of a metadata message.
GetMetadataVersion(metadata) == metadata.version

\* ReadProtoString: the status of reading a string into a buffer.
ReadProtoString(str, buffer_size) ==
    IF Len(str) > buffer_size THEN "ResourceExhausted" ELSE "Ok"

---------------------------------------------------------------------------
(* Backend reads. *)

\* GetOnDeviceTrustedRoot: the root the backend holds, or the backend's error.
GetOnDeviceTrustedRoot(root, fault) ==
    IF fault = "root_read" THEN FailedRoot(kBackendError) ELSE root

\* GetOnDeviceManifest: the manifest the backend holds (NotFound when there
\* is none), or the backend's error when the read named by fault fails.
GetOnDeviceManifest(manifest, fault, read) ==
    IF fault = read THEN FailedTargets(kBackendError) ELSE manifest

\* ManifestAccessor::FromBundle: the bundle's top-level targets metadata.
FromBundle(status, bundle) ==
    IF status # "Ok" THEN FailedTargets(status) ELSE bundle.targets

\* ManifestAccessor::GetTargetFile: the first target file of that name.
RECURSIVE FindTargetFile(_, _, _)
FindTargetFile(target_files, target_name, i) ==
    IF i > Len(target_files) THEN 0
    ELSE IF target_files[i].file_name = target_name THEN i
    ELSE FindTargetFile(target_files, target_name, i + 1)

---------------------------------------------------------------------------
(* The stages of DoVerify.  Each yields the status it returns, the backend *)
(* calls and stage marks it makes, and what it leaves in the state.        *)

\* The rollback test of UpgradeRoot, never finding a rollback.
RootRollback_Never(trusted_root_version, new_root_version) == FALSE

\* The anti-rollback test of VerifyTargetsMetadata, rejecting equal versions.
TargetsRollback_OrEqual(current_version, new_version) ==
    current_version >= new_version

\* The rollback test of UpgradeRoot: the trusted root is newer than the new.
\* The rollback test of UpgradeRoot that also refuses an equal version.
RootRollback_OrEqual(trusted_root_version, new_root_version) ==
    trusted_root_version >= new_root_version

RootRollback(trusted_root_version, new_root_version) ==
    trusted_root_version > new_root_version

\* The anti-rollback test of VerifyTargetsMetadata.
TargetsRollback(current_version, new_version) ==
    current_version > new_version

\* UpgradeRoot that requires a valid trust anchor before it looks at the
\* incoming root.
UpgradeRoot_AnchorFirst(bundle, self_verifying, root, fault) ==
    LET new_root == bundle.root
        trusted == IF self_verifying THEN new_root
                   ELSE GetOnDeviceTrustedRoot(root, fault)
        c0 == IF self_verifying THEN <<"UpgradeRoot">>
              ELSE IF fault = "root_read"
              THEN <<"UpgradeRoot", "GetRootMetadataReader_failed">>
              ELSE <<"UpgradeRoot", "GetRootMetadataReader">>
        sig_trusted == VerifyRootMetadataSignatures(trusted, new_root)
        sig_self == VerifyRootMetadataSignatures(new_root, new_root)
        c1 == Append(c0, "root_signed_by_trusted")
        c2 == Append(c1, "root_signed_by_self")
        c3 == Append(c2, "root_version_checked")
        c4 == Append(c3, "SafelyPersistRootMetadata")
        c4f == Append(c3, "SafelyPersistRootMetadata_failed")
        Result(st, persisted, c) ==
            [status |-> st, trusted |-> trusted, persisted |-> persisted,
             calls |-> c]
    IN  IF trusted.st # "Ok" THEN Result(trusted.st, FALSE, c0)
        ELSE IF new_root.st # "Ok" THEN Result("Ok", FALSE, c0)
        ELSE IF sig_trusted # "Ok" THEN Result(sig_trusted, FALSE, c0)
        ELSE IF sig_self # "Ok" THEN Result(sig_self, FALSE, c1)
        ELSE IF RootRollback(GetMetadataVersion(trusted),
                             GetMetadataVersion(new_root))
        THEN Result("Unauthenticated", FALSE, c2)
        ELSE IF self_verifying THEN Result("Ok", FALSE, c3)
        ELSE IF fault = "persist_root" THEN Result(kBackendError, FALSE, c4f)
        ELSE Result("Ok", TRUE, c4)

\* UpgradeRoot that persists the verified root in self-verification mode as
\* well.
UpgradeRoot_PersistAlways(bundle, self_verifying, root, fault) ==
    LET new_root == bundle.root
        trusted == IF self_verifying THEN new_root
                   ELSE GetOnDeviceTrustedRoot(root, fault)
        c0 == IF self_verifying THEN <<"UpgradeRoot">>
              ELSE IF fault = "root_read"
              THEN <<"UpgradeRoot", "GetRootMetadataReader_failed">>
              ELSE <<"UpgradeRoot", "GetRootMetadataReader">>
        sig_trusted == VerifyRootMetadataSignatures(trusted, new_root)
        sig_self == VerifyRootMetadataSignatures(new_root, new_root)
        c1 == Append(c0, "root_signed_by_trusted")
        c2 == Append(c1, "root_signed_by_self")
        c3 == Append(c2, "root_version_checked")
        c4 == Append(c3, "SafelyPersistRootMetadata")
        c4f == Append(c3, "SafelyPersistRootMetadata_failed")
        Result(st, persisted, c) ==
            [status |-> st, trusted |-> trusted, persisted |-> persisted,
             calls |-> c]
    IN  IF new_root.st # "Ok" THEN Result("Ok", FALSE, c0)
        ELSE IF trusted.st # "Ok" THEN Result(trusted.st, FALSE, c0)
        ELSE IF sig_trusted # "Ok" THEN Result(sig_trusted, FALSE, c0)
        ELSE IF sig_self # "Ok" THEN Result(sig_self, FALSE, c1)
        ELSE IF RootRollback(GetMetadataVersion(trusted),
                             GetMetadataVersion(new_root))
        THEN Result("Unauthenticated", FALSE, c2)
        ELSE IF fault = "persist_root" THEN Result(kBackendError, FALSE, c4f)
        ELSE Result("Ok", TRUE, c4)

\* UpgradeRoot: [status, trusted (trusted_root_), persisted (whether the
\* backend stored new_root), calls].
UpgradeRoot(bundle, self_verifying, root, fault) ==
    LET new_root == bundle.root
        trusted == IF self_verifying THEN new_root
                   ELSE GetOnDeviceTrustedRoot(root, fault)
        c0 == IF self_verifying THEN <<"UpgradeRoot">>
              ELSE IF fault = "root_read"
              THEN <<"UpgradeRoot", "GetRootMetadataReader_failed">>
              ELSE <<"UpgradeRoot", "GetRootMetadataReader">>
        sig_trusted == VerifyRootMetadataSignatures(trusted, new_root)
        sig_self == VerifyRootMetadataSignatures(new_root, new_root)
        c1 == Append(c0, "root_signed_by_trusted")
        c2 == Append(c1, "root_signed_by_self")
        c3 == Append(c2, "root_version_checked")
        c4 == Append(c3, "SafelyPersistRootMetadata")
        c4f == Append(c3, "SafelyPersistRootMetadata_failed")
        Result(st, persisted, c) ==
            [status |-> st, trusted |-> trusted, persisted |-> persisted,
             calls |-> c]
    IN  IF new_root.st # "Ok" THEN Result("Ok", FALSE, c0)
        ELSE IF trusted.st # "Ok" THEN Result(trusted.st, FALSE, c0)
        ELSE IF sig_trusted # "Ok" THEN Result(sig_trusted, FALSE, c0)
        ELSE IF sig_self # "Ok" THEN Result(sig_self, FALSE, c1)
        ELSE IF RootRollback(GetMetadataVersion(trusted),
                             GetMetadataVersion(new_root))
        THEN Result("Unauthenticated", FALSE, c2)
        ELSE IF self_verifying THEN Result("Ok", FALSE, c3)
        ELSE IF fault = "persist_root" THEN Result(kBackendError, FALSE, c4f)
        ELSE Result("Ok", TRUE, c4)

\* VerifyTargetsMetadata that takes unsigned targets metadata for verified
\* in normal mode as well.
VerifyTargetsMetadata_UnsignedOk(bundle, trusted, self_verifying, manifest, fault) ==
    LET signed == bundle.targets
        sig_res == VerifyMetadataSignatures(signed.sigs, trusted.targets_req,
                                            trusted.keys)
        device == GetOnDeviceManifest(manifest, fault, "manifest_read_targets")
        c0 == <<"VerifyTargetsMetadata">>
        c1 == Append(c0, IF fault = "manifest_read_targets"
                         THEN "BeforeManifestRead_failed"
                         ELSE "BeforeManifestRead")
        Result(st, c) == [status |-> st, calls |-> c]
    IN  IF self_verifying /\ trusted.st # "Ok" THEN Result("Ok", c0)
        ELSE IF trusted.st # "Ok" THEN Result(trusted.st, c0)
        ELSE IF signed.st # "Ok" THEN Result(signed.st, c0)
        ELSE IF sig_res = "NotFound" THEN Result("Ok", c0)
        ELSE IF sig_res # "Ok" THEN Result(sig_res, c0)
        ELSE IF self_verifying THEN Result("Ok", c0)
        ELSE IF device.st = "NotFound" THEN Result("Ok", c1)
        ELSE IF device.st # "Ok" THEN Result(device.st, c1)
        ELSE IF TargetsRollback(GetMetadataVersion(device),
                                GetMetadataVersion(signed))
        THEN Result("Unauthenticated", c1)
        ELSE Result("Ok", c1)

\* VerifyTargetsMetadata: [status, calls].
VerifyTargetsMetadata(bundle, trusted, self_verifying, manifest, fault) ==
    LET signed == bundle.targets
        sig_res == VerifyMetadataSignatures(signed.sigs, trusted.targets_req,
                                            trusted.keys)
        device == GetOnDeviceManifest(manifest, fault, "manifest_read_targets")
        c0 == <<"VerifyTargetsMetadata">>
        c1 == Append(c0, IF fault = "manifest_read_targets"
                         THEN "BeforeManifestRead_failed"
                         ELSE "BeforeManifestRead")
        Result(st, c) == [status |-> st, calls |-> c]
    IN  IF self_verifying /\ trusted.st # "Ok" THEN Result("Ok", c0)
        ELSE IF trusted.st # "Ok" THEN Result(trusted.st, c0)
        ELSE IF signed.st # "Ok" THEN Result(signed.st, c0)
        ELSE IF self_verifying /\ sig_res = "NotFound" THEN Result("Ok", c0)
        ELSE IF sig_res # "Ok" THEN Result(sig_res, c0)
        ELSE IF self_verifying THEN Result("Ok", c0)
        ELSE IF device.st = "NotFound" THEN Result("Ok", c1)
        ELSE IF device.st # "Ok" THEN Result(device.st, c1)
        ELSE IF TargetsRollback(GetMetadataVersion(device),
                                GetMetadataVersion(signed))
        THEN Result("Unauthenticated", c1)
        ELSE Result("Ok", c1)

\* VerifyInBundleTargetPayload that compares the length alone.
VerifyInBundleTargetPayload_LengthOnly(expected_length, expected_sha256, payload) ==
    IF Len(payload) # expected_length THEN "Unauthenticated" ELSE "Ok"

\* VerifyInBundleTargetPayload: the payload's measured length and digest
\* against the manifest's.
VerifyInBundleTargetPayload(expected_length, expected_sha256, payload) ==
    IF Len(payload) # expected_length THEN "Unauthenticated"
    ELSE IF Sha256(payload) # expected_sha256 THEN "Unauthenticated"
    ELSE "Ok"

\* VerifyOutOfBundleTargetPayload: the on-device manifest's cached entry
\* against the bundle manifest's, when personalization is compiled in.
VerifyOutOfBundleTargetPayload(target_name, expected_length, expected_sha256, with_personalization, manifest, fault) ==
    LET device == GetOnDeviceManifest(manifest, fault, "manifest_read_payloads")
        i == FindTargetFile(device.target_files, target_name, 1)
        cached == device.target_files[i]
    IN  IF ~with_personalization THEN "Unauthenticated"
        ELSE IF device.st # "Ok" THEN "Unauthenticated"
        ELSE IF i = 0 THEN "Unauthenticated"
        ELSE IF cached.length # expected_length THEN "Unauthenticated"
        ELSE IF cached.sha256 = 0 THEN "NotFound"
        ELSE IF cached.sha256 # expected_sha256 THEN "Unauthenticated"
        ELSE "Ok"

\* payloads_map[target_name]: the entry of the bundle's target_payloads map
\* under the name, absent when the map has no such key.
PayloadOf(bundle, target_name) ==
    IF target_name \in DOMAIN bundle.payloads
    THEN bundle.payloads[target_name]
    ELSE NoPayload

\* The size test of VerifyTargetsPayloads that also refuses the maximum.
TargetTooLarge_OrEqual(target_length) ==
    target_length >= MAX_TARGET_PAYLOAD_SIZE

\* The size test of VerifyTargetsPayloads on a target file's length.
TargetTooLarge(target_length) ==
    target_length > MAX_TARGET_PAYLOAD_SIZE

\* VerifyTargetPayload: [status, calls] for one target file.
VerifyTargetPayload(bundle, target_file, with_personalization, manifest, fault) ==
    LET payload == PayloadOf(bundle, target_file.file_name)
    IN  IF payload.present
        THEN [status |-> VerifyInBundleTargetPayload(
                             target_file.length, target_file.sha256,
                             payload.bytes),
              calls |-> <<>>]
        ELSE [status |-> VerifyOutOfBundleTargetPayload(
                             target_file.file_name, target_file.length,
                             target_file.sha256, with_personalization,
                             manifest, fault),
              calls |-> IF ~with_personalization THEN <<>>
                        ELSE IF fault = "manifest_read_payloads"
                        THEN <<"BeforeManifestRead_failed">>
                        ELSE <<"BeforeManifestRead">>]

\* The loop of VerifyTargetsPayloads from target file i on: [status, calls].
RECURSIVE VerifyTargetFilesFrom(_, _, _, _, _, _)
VerifyTargetFilesFrom(bundle, target_files, i, with_personalization, manifest, fault) ==
    IF i > Len(target_files) THEN [status |-> "Ok", calls |-> <<>>]
    ELSE LET target_file == target_files[i]
             name_st == ReadProtoString(target_file.file_name,
                                        MAX_TARGET_NAME_LENGTH)
             one == VerifyTargetPayload(bundle, target_file,
                                        with_personalization, manifest, fault)
             rest == VerifyTargetFilesFrom(bundle, target_files, i + 1,
                                           with_personalization, manifest,
                                           fault)
         IN  IF name_st # "Ok" THEN [status |-> name_st, calls |-> <<>>]
             ELSE IF TargetTooLarge(target_file.length)
             THEN [status |-> "OutOfRange", calls |-> <<>>]
             ELSE IF target_file.sha256 = 0
             THEN [status |-> "NotFound", calls |-> <<>>]
             ELSE IF one.status # "Ok" THEN one
             ELSE [status |-> rest.status, calls |-> one.calls \o rest.calls]

\* VerifyTargetsPayloads: [status, calls].
VerifyTargetsPayloads(bundle, with_personalization, manifest, fault) ==
    LET bundle_manifest == FromBundle("Ok", bundle)
        loop == VerifyTargetFilesFrom(bundle, bundle_manifest.target_files, 1,
                                      with_personalization, manifest, fault)
        c0 == <<"VerifyTargetsPayloads">>
    IN  IF bundle_manifest.st # "Ok"
        THEN [status |-> bundle_manifest.st, calls |-> c0]
        ELSE [status |-> loop.status, calls |-> c0 \o loop.calls]

\* DoVerify that upgrades the root only once the targets metadata, checked
\* against the on-device root, has passed.
DoVerify_TargetsFirst(bundle, self_verifying, with_personalization, root, manifest, fault) ==
    LET anchor == IF self_verifying THEN bundle.root
                  ELSE GetOnDeviceTrustedRoot(root, fault)
        tm == VerifyTargetsMetadata(bundle, anchor, self_verifying, manifest,
                                    fault)
        up == UpgradeRoot(bundle, self_verifying, root, fault)
        tp == VerifyTargetsPayloads(bundle, with_personalization, manifest,
                                    fault)
        Result(st, persisted, c) ==
            [status |-> st, verified |-> (st = "Ok"), trusted |-> anchor,
             persisted |-> persisted, calls |-> c]
    IN  IF tm.status # "Ok" THEN Result(tm.status, FALSE, tm.calls)
        ELSE IF up.status # "Ok"
        THEN Result(up.status, up.persisted, tm.calls \o up.calls)
        ELSE Result(tp.status, up.persisted, tm.calls \o up.calls \o tp.calls)

\* DoVerify that checks the targets metadata against the new root once
\* UpgradeRoot has persisted it.
DoVerify_UnderUpgradedRoot(bundle, self_verifying, with_personalization, root, manifest, fault) ==
    LET up == UpgradeRoot(bundle, self_verifying, root, fault)
        tm == VerifyTargetsMetadata(bundle,
                                    IF up.persisted THEN bundle.root
                                    ELSE up.trusted,
                                    self_verifying, manifest, fault)
        tp == VerifyTargetsPayloads(bundle, with_personalization, manifest,
                                    fault)
        Result(st, c) ==
            [status |-> st, verified |-> (st = "Ok"), trusted |-> up.trusted,
             persisted |-> up.persisted, calls |-> c]
    IN  IF up.status # "Ok" THEN Result(up.status, up.calls)
        ELSE IF tm.status # "Ok" THEN Result(tm.status, up.calls \o tm.calls)
        ELSE Result(tp.status, up.calls \o tm.calls \o tp.calls)

\* DoVerify: [status, verified (bundle_verified_), trusted (trusted_root_),
\* persisted, calls].  The stages run in order; the first to fail ends it.
DoVerify(bundle, self_verifying, with_personalization, root, manifest, fault) ==
    LET up == UpgradeRoot(bundle, self_verifying, root, fault)
        tm == VerifyTargetsMetadata(bundle, up.trusted, self_verifying,
                                    manifest, fault)
        tp == VerifyTargetsPayloads(bundle, with_personalization, manifest,
                                    fault)
        Result(st, c) ==
            [status |-> st, verified |-> (st = "Ok"), trusted |-> up.trusted,
             persisted |-> up.persisted, calls |-> c]
    IN  IF DISABLE_BUNDLE_VERIFICATION
        THEN [status |-> "Ok", verified |-> TRUE,
              trusted |-> FailedRoot("Unknown"), persisted |-> FALSE,
              calls |-> <<>>]
        ELSE IF up.status # "Ok" THEN Result(up.status, up.calls)
        ELSE IF tm.status # "Ok" THEN Result(tm.status, up.calls \o tm.calls)
        ELSE Result(tp.status, up.calls \o tm.calls \o tp.calls)

\* DoOpen: [status, reader_open, bundle_status] from the reader's state.
DoOpen(is_open, status, fault) ==
    IF fault = "blob_init"
    THEN [status |-> kBackendError, reader_open |-> is_open,
          bundle_status |-> status]
    ELSE IF fault = "reader_open"
    THEN [status |-> kBackendError, reader_open |-> is_open,
          bundle_status |-> status]
    ELSE IF fault = "bundle_view"
    THEN [status |-> kBackendError, reader_open |-> FALSE,
          bundle_status |-> kBackendError]
    ELSE [status |-> "Ok", reader_open |-> TRUE, bundle_status |-> "Ok"]

---------------------------------------------------------------------------
(* Public operations. *)

\* GetManifest without its guard on bundle_verified_.
GetManifest_Unguarded(verified, status, bundle) ==
    FromBundle(status, bundle)

\* GetManifest: FailedPrecondition until verified, then the bundle's manifest.
GetManifest(verified, status, bundle) ==
    IF ~verified THEN FailedTargets("FailedPrecondition")
    ELSE FromBundle(status, bundle)

\* The sum loop of GetTotalPayloadSize from target file i on: [status, size].
RECURSIVE TotalPayloadSizeFrom(_, _, _, _)
TotalPayloadSizeFrom(bundle, target_files, i, total_bytes) ==
    IF i > Len(target_files) THEN [status |-> "Ok", size |-> total_bytes]
    ELSE LET target == target_files[i]
         IN  IF Len(target.file_name) > MAX_TARGET_NAME_LENGTH
             THEN [status |-> "OutOfRange", size |-> 0]
             ELSE IF ~PayloadOf(bundle, target.file_name).present
             THEN TotalPayloadSizeFrom(bundle, target_files, i + 1,
                                       total_bytes)
             ELSE TotalPayloadSizeFrom(bundle, target_files, i + 1,
                                       total_bytes + target.length)

\* The calls of one operation that may fail.
OpenFaults ==
    {"none", "blob_init", "reader_open", "bundle_view", "root_read",
     "persist_root", "manifest_read_targets", "manifest_read_payloads"}

PersistFaults ==
    {"none", "before_write", "get_writer", "export", "after_write"}

\* No value returned; name is the target name a call was given, if any.
NoValue == [size |-> 0, bytes |-> <<>>, name |-> <<>>]

\* OpenAndVerify: DoOpen, then DoVerify, and Close when DoVerify fails.
OpenAndVerify(fault) ==
    LET open == DoOpen(reader_open, bundle_status, fault)
        v == DoVerify(blob, disable_verification_, personalization,
                      device_root, device_manifest, fault)
    IN  /\ last_op' = "OpenAndVerify"
        /\ last_value' = NoValue
        /\ prior_root' = device_root
        /\ UNCHANGED <<disable_verification_, personalization, blob,
                       device_manifest, vm_in, vm_out>>
        /\ IF open.status # "Ok"
           THEN /\ reader_open' = open.reader_open
                /\ bundle_status' = open.bundle_status
                /\ last_status' = open.status
                /\ calls' = <<>>
                /\ UNCHANGED <<bundle_verified_, trusted_root_, device_root,
                               ok_since_close>>
           ELSE /\ bundle_status' = open.bundle_status
                /\ trusted_root_' = v.trusted
                /\ device_root' = IF v.persisted THEN blob.root
                                  ELSE device_root
                /\ calls' = v.calls
                /\ last_status' = v.status
                /\ bundle_verified_' = (v.status = "Ok" /\ v.verified)
                /\ reader_open' = (v.status = "Ok")
                /\ ok_since_close' = (v.status = "Ok")

\* Close that closes the reader and leaves bundle_verified_ as it is.
Close_ReaderOnly ==
    /\ bundle_verified_' = bundle_verified_
    /\ reader_open' = FALSE
    /\ ok_since_close' = FALSE
    /\ last_op' = "Close"
    /\ last_status' = "Ok"
    /\ last_value' = NoValue
    /\ calls' = IF reader_open THEN <<"blob_store_reader_.Close">> ELSE <<>>
    /\ UNCHANGED <<bundle_status, trusted_root_, disable_verification_,
                   personalization, blob, device_root, device_manifest,
                   prior_root, vm_in, vm_out>>

\* Close: clears bundle_verified_ and closes the reader when it is open.
Close ==
    /\ bundle_verified_' = FALSE
    /\ reader_open' = FALSE
    /\ ok_since_close' = FALSE
    /\ last_op' = "Close"
    /\ last_status' = "Ok"
    /\ last_value' = NoValue
    /\ calls' = IF reader_open THEN <<"blob_store_reader_.Close">> ELSE <<>>
    /\ UNCHANGED <<bundle_status, trusted_root_, disable_verification_,
                   personalization, blob, device_root, device_manifest,
                   prior_root, vm_in, vm_out>>

\* What an operation that only reads the accessor leaves alone.
ReadOnly ==
    UNCHANGED <<bundle_verified_, reader_open, bundle_status, trusted_root_,
                disable_verification_, personalization, blob, device_root,
                device_manifest, prior_root, ok_since_close, vm_in, vm_out>>

\* A call of GetManifest by the accessor's user.
CallGetManifest ==
    /\ last_op' = "GetManifest"
    /\ last_status' = GetManifest(bundle_verified_, bundle_status, blob).st
    /\ last_value' = NoValue
    /\ calls' = <<>>
    /\ ReadOnly

\* GetTargetPayload that looks the name up in the payloads map alone.
GetTargetPayload_NoManifestEntry(target_name) ==
    LET payload == PayloadOf(blob, target_name)
        st == IF ~payload.present THEN "NotFound" ELSE "Ok"
    IN  /\ last_op' = "GetTargetPayload"
        /\ last_status' = st
        /\ last_value' = IF st = "Ok"
                         THEN [size |-> Len(payload.bytes),
                               bytes |-> payload.bytes, name |-> target_name]
                         ELSE [NoValue EXCEPT !.name = target_name]
        /\ calls' = <<>>
        /\ ReadOnly

\* GetTargetPayload(target_name): the reader over the named payload.
GetTargetPayload(target_name) ==
    LET manifest == GetManifest(bundle_verified_, bundle_status, blob)
        i == FindTargetFile(manifest.target_files, target_name, 1)
        payload == PayloadOf(blob, target_name)
        st == IF manifest.st # "Ok" THEN manifest.st
              ELSE IF i = 0 THEN "NotFound"
              ELSE IF ~payload.present THEN "NotFound"
              ELSE "Ok"
    IN  /\ last_op' = "GetTargetPayload"
        /\ last_status' = st
        /\ last_value' = IF st = "Ok"
                         THEN [size |-> Len(payload.bytes),
                               bytes |-> payload.bytes, name |-> target_name]
                         ELSE [NoValue EXCEPT !.name = target_name]
        /\ calls' = <<>>
        /\ ReadOnly

\* GetTotalPayloadSize: total_bytes starts as whatever the stack held.
GetTotalPayloadSize(uninitialized) ==
    LET manifest == GetManifest(bundle_verified_, bundle_status, blob)
        sum == TotalPayloadSizeFrom(blob, manifest.target_files, 1,
                                    uninitialized)
        st == IF manifest.st # "Ok" THEN manifest.st ELSE sum.status
    IN  /\ last_op' = "GetTotalPayloadSize"
        /\ last_status' = st
        /\ last_value' = IF st = "Ok"
                         THEN [NoValue EXCEPT !.size = sum.size]
                         ELSE NoValue
        /\ calls' = <<>>
        /\ ReadOnly

\* PersistManifest: hands the verified manifest to the backend, which seals
\* it in AfterManifestWrite.
PersistManifest(fault) ==
    LET manifest == GetManifest(bundle_verified_, bundle_status, blob)
        c1 == <<"BeforeManifestWrite">>
        c2 == Append(c1, "GetManifestWriter")
        c3 == Append(c2, "Export")
        c4 == Append(c3, "AfterManifestWrite")
        done == manifest.st = "Ok" /\ fault = "none"
    IN  /\ last_op' = "PersistManifest"
        /\ last_status' = IF manifest.st # "Ok" THEN manifest.st
                          ELSE IF fault = "none" THEN "Ok"
                          ELSE kBackendError
        /\ calls' = IF manifest.st # "Ok" THEN <<>>
                    ELSE IF fault = "before_write" THEN c1
                    ELSE IF fault = "get_writer" THEN c2
                    ELSE IF fault = "export" THEN c3
                    ELSE c4
        /\ device_manifest' =
               IF done
               THEN Targets(manifest.version, manifest.target_files, <<>>)
               ELSE device_manifest
        /\ last_value' = NoValue
        /\ UNCHANGED <<bundle_verified_, reader_open, bundle_status,
                       trusted_root_, disable_verification_, personalization,
                       blob, device_root, prior_root, ok_since_close, vm_in,
                       vm_out>>

---------------------------------------------------------------------------
(* The bundles and backend states the model starts from. *)

\* All sequences over pool of length at most n.
SeqsUpTo(pool, n) == UNION {[1..k -> pool] : k \in 0..n}

AllKeys == [k \in KeyIds |-> k]

\* Signatures by key 1, by key 2, and bytes under key id 2 that verify
\* under no key.
SigPool == {Sig(1, 32, 1), Sig(2, 32, 2), Sig(2, 32, 0)}
SigLists == SeqsUpTo(SigPool, MaxSigs)

\* A root whose root role needs key 1, and one that needs keys 1 and 2.
\* Both give the targets role to key 2.
RootA(version, sigs) ==
    SignedRoot(version, AllKeys, Requirement(1, {1}), Requirement(1, {2}), sigs)
RootB(version, sigs) ==
    SignedRoot(version, AllKeys, Requirement(2, {1, 2}), Requirement(1, {2}), sigs)

\* A root that gives the root role and the targets role to key 1.
RootC(version, sigs) ==
    SignedRoot(version, AllKeys, Requirement(1, {1}), Requirement(1, {1}), sigs)

NoRoot == FailedRoot("NotFound")
NoTargets == FailedTargets("NotFound")
NoManifest == FailedTargets("NotFound")

Versions == 1..MaxVersion

\* A name of one byte and one of MAX_TARGET_NAME_LENGTH bytes.
Names == {<<1>>, <<1, 1>>}
NoPayloads == [n \in Names |-> NoPayload]

Bundle(root, targets, payloads) ==
    [root |-> root, targets |-> targets, payloads |-> payloads]

Scenario(bundle, root, manifest, disable, pers) ==
    [bundle |-> bundle, root |-> root, manifest |-> manifest,
     disable |-> disable, pers |-> pers]

\* Bundles that vary the incoming root and its signatures.
RootScenarios ==
    {Scenario(Bundle(r, t, NoPayloads), d, NoManifest, m, TRUE) :
        r \in {NoRoot} \cup {RootA(v, s) : v \in Versions, s \in SigLists}
                       \cup {RootB(v, s) : v \in Versions, s \in SigLists},
        t \in {Targets(1, <<>>, <<Sig(2, 32, 2)>>)},
        d \in {RootA(1, <<>>), RootB(MaxVersion, <<>>)},
        m \in BOOLEAN}

\* Bundles that vary the targets metadata, its signatures and its version.
TargetsScenarios ==
    {Scenario(Bundle(r, t, NoPayloads), RootA(1, <<>>), dm, m, TRUE) :
        r \in {NoRoot, RootB(MaxVersion, <<Sig(1, 32, 1), Sig(2, 32, 2)>>)},
        t \in {NoTargets} \cup
              {Targets(v, <<>>, s) : v \in Versions, s \in SigLists},
        dm \in {NoManifest} \cup {Targets(v, <<>>, <<>>) : v \in Versions},
        m \in BOOLEAN}

\* Payload bytes, and the target files that describe some of them rightly,
\* some wrongly, one without a SHA-256 hash, one too large and one whose
\* name is too long.
FilePool ==
    {TargetFile(<<1>>, Len(b), Sha256(b)) : b \in {<<1>>, <<1, 1>>}}
    \cup {TargetFile(<<1, 1>>, 1, Sha256(<<1>>)),
          TargetFile(<<1>>, 2, Sha256(<<1>>)), TargetFile(<<1>>, 1, 0),
          TargetFile(<<1>>, MAX_TARGET_PAYLOAD_SIZE + 1, Sha256(<<1, 1, 1>>)),
          TargetFile(<<1, 1, 1>>, 1, Sha256(<<1>>))}

PayloadMaps ==
    {[n \in Names |-> IF n = <<1>> THEN p1 ELSE p2] :
        p1 \in {NoPayload, Payload(<<1>>), Payload(<<1, 1>>),
                Payload(<<1, 1, 1>>)},
        p2 \in {NoPayload, Payload(<<1>>)}}

DeviceFilePool ==
    {TargetFile(<<1>>, 1, Sha256(<<1>>)), TargetFile(<<1>>, 2, Sha256(<<1, 1>>)),
     TargetFile(<<1>>, 1, 0)}

\* Bundles that vary the manifest's target files and the payloads.
PayloadScenarios ==
    {Scenario(Bundle(NoRoot, Targets(1, fl, <<Sig(2, 32, 2)>>), pm),
              RootA(1, <<>>), dm, m, pers) :
        fl \in SeqsUpTo(FilePool, MaxTargets),
        pm \in PayloadMaps,
        dm \in {NoManifest} \cup
               {Targets(1, dfl, <<>>) : dfl \in SeqsUpTo(DeviceFilePool, 1)},
        m \in BOOLEAN,
        pers \in BOOLEAN}

Scenarios == RootScenarios \cup TargetsScenarios

\* Bundles whose new root keeps the targets role with key 2 or moves it to
\* key 1, over a device whose root has it with key 2 or with key 1.
RerunScenarios ==
    {Scenario(Bundle(r, t, NoPayloads), d, dm, m, TRUE) :
        r \in {NoRoot} \cup
              {RootA(v, s) : v \in Versions, s \in {<<>>, <<Sig(1, 32, 1)>>}}
              \cup
              {RootC(v, s) : v \in Versions, s \in {<<>>, <<Sig(1, 32, 1)>>}},
        t \in {Targets(1, <<>>, <<Sig(1, 32, 1)>>),
               Targets(1, <<>>, <<Sig(2, 32, 2)>>)},
        d \in {RootA(1, <<>>), RootC(1, <<>>)},
        dm \in {NoManifest, Targets(1, <<>>, <<>>)},
        m \in BOOLEAN}

\* Bundles and backends in which each stage of DoVerify can fail: an incoming
\* root that is absent, malformed, unsigned, signed or carries a malformed
\* signature;
\* targets metadata unsigned, signed or wrongly signed; one target file or
\* none, its payload bundled, bundled with other bytes, or left out.
ErrorScenarios ==
    {Scenario(Bundle(r, Targets(1, fl, ts),
                     [n \in Names |-> IF n = <<1>> THEN p ELSE NoPayload]),
              RootA(1, <<>>), dm, m, pers) :
        r \in {NoRoot, FailedRoot("DataLoss"), RootA(1, <<>>),
               RootA(1, <<Sig(1, 32, 1)>>), RootA(1, <<Sig(1, 31, 1)>>)},
        fl \in {<<>>, <<TargetFile(<<1>>, 1, Sha256(<<1>>))>>},
        ts \in {<<>>, <<Sig(2, 32, 2)>>, <<Sig(2, 32, 0)>>},
        p \in {NoPayload, Payload(<<1>>), Payload(<<1, 1>>)},
        dm \in {NoManifest,
                Targets(1, <<TargetFile(<<1>>, 1, Sha256(<<1>>))>>, <<>>)},
        m \in BOOLEAN, pers \in BOOLEAN}

\* The inputs of VerifyMetadataSignatures outside SpecSig.
NoVmIn ==
    [sigs |-> <<>>, req |-> Requirement(0, {}), keys |-> [k \in KeyIds |-> 0]]

\* The result of VerifyMetadataSignatures not yet computed.
NoVmOut ==
    [done |-> FALSE, edited |-> FALSE, status |-> "none", normal |-> "none",
     self |-> "none"]

\* The accessor as constructed, over a blob store and a backend.
AccessorInit(sc) ==
        /\ bundle_verified_ = FALSE
        /\ reader_open = FALSE
        /\ bundle_status = "Unknown"
        /\ trusted_root_ = FailedRoot("Unknown")
        /\ disable_verification_ = sc.disable
        /\ personalization = sc.pers
        /\ blob = sc.bundle
        /\ device_root = sc.root
        /\ device_manifest = sc.manifest
        /\ last_op = "none"
        /\ last_status = "Ok"
        /\ last_value = NoValue
        /\ calls = <<>>
        /\ prior_root = sc.root
        /\ ok_since_close = FALSE

InitFrom(scenarios) ==
    \E sc \in scenarios :
        /\ AccessorInit(sc)
        /\ vm_in = NoVmIn
        /\ vm_out = NoVmOut

Init == InitFrom(Scenarios)

InitPayloads == InitFrom(PayloadScenarios)

InitRerun == InitFrom(RerunScenarios)

InitErrors == InitFrom(ErrorScenarios)

Next ==
    \/ \E fault \in OpenFaults : OpenAndVerify(fault)
    \/ Close
    \/ CallGetManifest
    \/ \E target_name \in Names : GetTargetPayload(target_name)
    \/ \E uninitialized \in {0, 1} : GetTotalPayloadSize(uninitialized)
    \/ \E fault \in PersistFaults : PersistManifest(fault)

\* The accessor over bundles that vary the root and the targets metadata.
Spec == Init /\ [][Next]_vars

\* The accessor over bundles that vary the target files and the payloads.
SpecPayloads == InitPayloads /\ [][Next]_vars

\* The accessor over bundles whose new root may move the targets role.
SpecRerun == InitRerun /\ [][Next]_vars

\* The accessor over bundles and backends in which every stage can fail.
SpecErrors == InitErrors /\ [][Next]_vars

---------------------------------------------------------------------------
(* VerifyMetadataSignatures on its own: the inputs are drawn at the start, *)
(* the function is applied, and signatures whose key id the requirement    *)
(* does not allow are then added to or removed from the list.              *)

SigInputPool ==
    {Sig(k, 32, g) : k \in KeyIds, g \in {0, 1, 2}} \cup {Sig(1, 31, 1)}

Requirements ==
    {Requirement(t, ids) : t \in 0..MaxSigs, ids \in SUBSET KeyIds}

KeyMappings ==
    {[k \in KeyIds |-> IF k \in mapped THEN k ELSE 0] : mapped \in SUBSET KeyIds}

\* The status of VerifyTargetsMetadata for targets metadata that carries
\* the signatures, under a trusted root with the requirement and the keys.
TargetsOutcome(in, self_verifying) ==
    VerifyTargetsMetadata(
        Bundle(NoRoot, Targets(1, <<>>, in.sigs), NoPayloads),
        SignedRoot(1, in.keys, in.req, in.req, <<>>),
        self_verifying, NoManifest, "none").status

Outcome(in, edited) ==
    [done |-> TRUE, edited |-> edited,
     status |-> VerifyMetadataSignatures(in.sigs, in.req, in.keys),
     normal |-> TargetsOutcome(in, FALSE),
     self |-> TargetsOutcome(in, TRUE)]

InsertAt(seq, pos, x) ==
    SubSeq(seq, 1, pos - 1) \o <<x>> \o SubSeq(seq, pos, Len(seq))

RemoveAt(seq, pos) ==
    SubSeq(seq, 1, pos - 1) \o SubSeq(seq, pos + 1, Len(seq))

\* A well-formed signature whose key id the requirement does not allow.
NotAllowed(signature, req) ==
    signature.size = kDigestSizeBytes /\ signature.key_id \notin req.key_ids

ApplyVerify ==
    /\ ~vm_out.done
    /\ vm_out' = Outcome(vm_in, FALSE)
    /\ UNCHANGED <<vm_in, accessor_vars>>

InsertSignature(pos, signature) ==
    /\ vm_out.done
    /\ Len(vm_in.sigs) < MaxSigs
    /\ pos \in 1..(Len(vm_in.sigs) + 1)
    /\ NotAllowed(signature, vm_in.req)
    /\ vm_in' = [vm_in EXCEPT !.sigs = InsertAt(vm_in.sigs, pos, signature)]
    /\ vm_out' = Outcome(vm_in', TRUE)
    /\ UNCHANGED accessor_vars

RemoveSignature(pos) ==
    /\ vm_out.done
    /\ pos \in 1..Len(vm_in.sigs)
    /\ NotAllowed(vm_in.sigs[pos], vm_in.req)
    /\ vm_in' = [vm_in EXCEPT !.sigs = RemoveAt(vm_in.sigs, pos)]
    /\ vm_out' = Outcome(vm_in', TRUE)
    /\ UNCHANGED accessor_vars

InitSig ==
    /\ AccessorInit(Scenario(Bundle(NoRoot, NoTargets, NoPayloads),
                             RootA(1, <<>>), NoManifest, FALSE, TRUE))
    /\ vm_in \in [sigs : SeqsUpTo(SigInputPool, MaxSigs), req : Requirements,
                  keys : KeyMappings]
    /\ vm_out = NoVmOut

NextSig ==
    \/ ApplyVerify
    \/ \E pos \in 1..(MaxSigs + 1), signature \in SigInputPool :
           InsertSignature(pos, signature)
    \/ \E pos \in 1..(MaxSigs + 1) : RemoveSignature(pos)

SpecSig == InitSig /\ [][NextSig]_vars

---------------------------------------------------------------------------
(* Properties. *)

\* Whether x is an entry of the call log c.
Called(c, x) == \E i \in 1..Len(c) : c[i] = x

\* The last OpenAndVerify got past DoOpen (UpgradeRoot leaves its mark).
Opened == last_op = "OpenAndVerify" /\ calls # <<>>

\* C1: over every sequence of the public operations, GetManifest returns
\* FailedPrecondition exactly when bundle_verified_ is false, and
\* bundle_verified_ is false in every state in which no OpenAndVerify has
\* returned Ok since construction or since the last Close.
C1_ManifestOnlyWhenVerified ==
    /\ (GetManifest(bundle_verified_, bundle_status, blob).st
            = "FailedPrecondition") <=> ~bundle_verified_
    /\ last_op = "GetManifest" =>
           ((last_status = "FailedPrecondition") <=> ~bundle_verified_)
    /\ ~ok_since_close => ~bundle_verified_

\* A GetManifest call on a verified accessor that succeeded.
C1_Witness ==
    last_op = "GetManifest" /\ bundle_verified_ /\ last_status = "Ok"

\* C2: after any OpenAndVerify that returns a non-Ok status, whatever the
\* state before the call and whichever step failed, the accessor is Closed:
\* the reader is not open, bundle_verified_ is false and GetManifest returns
\* FailedPrecondition.
C2_FailedOpenAndVerifyCloses ==
    (last_op = "OpenAndVerify" /\ last_status # "Ok") =>
        /\ ~reader_open
        /\ ~bundle_verified_
        /\ GetManifest(bundle_verified_, bundle_status, blob).st
               = "FailedPrecondition"

\* The bundle holds a payload for T that has T's length and SHA-256.
InBundleMatch(T) ==
    LET payload == PayloadOf(blob, T.file_name)
    IN  /\ payload.present
        /\ Len(payload.bytes) = T.length
        /\ T.sha256 # 0
        /\ Sha256(payload.bytes) = T.sha256

\* The bundle holds no payload for T and the on-device manifest has an
\* entry of T's name with T's length and SHA-256.
OnDeviceMatch(T) ==
    /\ personalization
    /\ ~PayloadOf(blob, T.file_name).present
    /\ device_manifest.st = "Ok"
    /\ \E j \in 1..Len(device_manifest.target_files) :
           LET cached == device_manifest.target_files[j]
           IN  /\ cached.file_name = T.file_name
               /\ cached.length = T.length
               /\ T.sha256 # 0
               /\ cached.sha256 = T.sha256

\* C3: if Verify returns Ok, then for every target file T of the bundle
\* manifest either (a) the bundle holds a payload for T's name with T's
\* length and SHA-256, or (b) personalization is enabled, the bundle holds
\* no payload for T and the on-device manifest has an entry for T's name
\* with exactly that length and digest.
C3_VerifiedPayloadsMatch ==
    (last_op = "OpenAndVerify" /\ last_status = "Ok") =>
        /\ blob.targets.st = "Ok"
        /\ \A i \in 1..Len(blob.targets.target_files) :
               LET T == blob.targets.target_files[i]
               IN  InBundleMatch(T) \/ OnDeviceMatch(T)

\* A verified bundle with a personalized-out target file.
C3_Witness ==
    /\ last_op = "OpenAndVerify" /\ last_status = "Ok"
    /\ \E i \in 1..Len(blob.targets.target_files) :
           OnDeviceMatch(blob.targets.target_files[i])

\* The signatures of the list that are well formed, carry a key id the
\* requirement allows and verify under the key the mapping gives that id.
ValidSignatures(sigs, req, keys) ==
    {i \in 1..Len(sigs) :
        /\ sigs[i].size = kDigestSizeBytes
        /\ sigs[i].key_id \in req.key_ids
        /\ keys[sigs[i].key_id] # 0
        /\ sigs[i].signer = keys[sigs[i].key_id]}

\* The signatures meet the requirement: at least threshold of them are valid.
MeetsRequirement(sigs, req, keys) ==
    /\ req.threshold >= 1
    /\ Cardinality(ValidSignatures(sigs, req, keys)) >= req.threshold

\* new_root is signed as the root requirement of trusted asks, and as its
\* own root requirement asks, and is no older than trusted.
RootChainPasses(trusted, new_root) ==
    /\ trusted.st = "Ok" /\ new_root.st = "Ok"
    /\ MeetsRequirement(new_root.sigs, trusted.root_req, trusted.keys)
    /\ MeetsRequirement(new_root.sigs, new_root.root_req, new_root.keys)
    /\ GetMetadataVersion(new_root) >= GetMetadataVersion(trusted)

\* C4 as claimed: if Verify returns Ok and the bundle carries a new root,
\* the root persisted through the backend is that new root, its version is
\* at least the prior on-device root's, and its signatures meet the root
\* signature requirement of the prior on-device root and of itself.
C4_AcceptedRootIsPersisted ==
    (last_op = "OpenAndVerify" /\ last_status = "Ok" /\ blob.root.st = "Ok") =>
        /\ device_root = blob.root
        /\ RootChainPasses(prior_root, blob.root)

\* C4, amended: in normal mode (disable_verification_ false), if Verify
\* returns Ok and the bundle carries a new root, the root persisted through
\* the backend is that new root, its version is at least the prior
\* on-device root's, and its signatures meet the root signature requirement
\* of the prior on-device root and of itself.  (In self-verification mode
\* nothing is persisted and the on-device root is not consulted.)
C4_AcceptedRootIsPersistedInNormalMode ==
    (/\ last_op = "OpenAndVerify" /\ last_status = "Ok"
     /\ blob.root.st = "Ok" /\ ~disable_verification_) =>
        /\ device_root = blob.root
        /\ Called(calls, "SafelyPersistRootMetadata")
        /\ RootChainPasses(prior_root, blob.root)

\* A verified bundle whose new root replaced a different on-device root.
C4_Witness ==
    /\ last_op = "OpenAndVerify" /\ last_status = "Ok"
    /\ blob.root.st = "Ok" /\ ~disable_verification_
    /\ device_root = blob.root /\ prior_root # blob.root
    /\ GetMetadataVersion(blob.root) > GetMetadataVersion(prior_root)

\* The last OpenAndVerify read the on-device manifest for the anti-rollback
\* check of VerifyTargetsMetadata, and the read did not fail.
AntiRollbackReached ==
    /\ last_op = "OpenAndVerify"
    /\ \E i \in 1..(Len(calls) - 1) :
           /\ calls[i] = "VerifyTargetsMetadata"
           /\ calls[i + 1] = "BeforeManifestRead"

\* C5 as claimed (its first part): whenever the backend holds an on-device
\* manifest declaring targets version V, every bundle for which
\* OpenAndVerify returns Ok has top-level targets metadata version >= V.
C5_AcceptedTargetsNotOlder ==
    (last_op = "OpenAndVerify" /\ last_status = "Ok"
        /\ device_manifest.st = "Ok") =>
        GetMetadataVersion(blob.targets) >= GetMetadataVersion(device_manifest)

\* C5, amended: in normal mode, whenever the backend holds an on-device
\* manifest declaring targets version V, every bundle for which
\* OpenAndVerify returns Ok has targets version >= V; a bundle with targets
\* version < V whose run reaches the anti-rollback check is rejected there
\* with Unauthenticated, and a bundle with version equal to V passes the
\* anti-rollback check (payload verification starts).  In self-verification
\* mode the on-device manifest is not read.
C5_AntiRollbackInNormalMode ==
    /\ (last_op = "OpenAndVerify" /\ ~disable_verification_
            /\ device_manifest.st = "Ok") =>
           LET V == GetMetadataVersion(device_manifest)
               new == GetMetadataVersion(blob.targets)
           IN  /\ last_status = "Ok" => (AntiRollbackReached /\ new >= V)
               /\ (AntiRollbackReached /\ new < V) =>
                      /\ last_status = "Unauthenticated"
                      /\ ~Called(calls, "VerifyTargetsPayloads")
               /\ (AntiRollbackReached /\ new >= V) =>
                      Called(calls, "VerifyTargetsPayloads")
    /\ (last_op = "OpenAndVerify" /\ disable_verification_) =>
           ~AntiRollbackReached

\* A bundle accepted in normal mode with the on-device manifest's version.
C5_Witness ==
    /\ last_op = "OpenAndVerify" /\ last_status = "Ok"
    /\ ~disable_verification_ /\ device_manifest.st = "Ok"
    /\ AntiRollbackReached
    /\ GetMetadataVersion(blob.targets) = GetMetadataVersion(device_manifest)

PersistCalls == {"SafelyPersistRootMetadata", "SafelyPersistRootMetadata_failed"}

ManifestWriteCalls ==
    {"BeforeManifestWrite", "GetManifestWriter", "Export", "AfterManifestWrite"}

\* In the call log c, the three checks of the new root are marked, in
\* order, before entry i.
RootChecksBefore(c, i) ==
    \E j \in 1..(i - 1), k \in 1..(i - 1), l \in 1..(i - 1) :
        /\ j < k /\ k < l
        /\ c[j] = "root_signed_by_trusted"
        /\ c[k] = "root_signed_by_self"
        /\ c[l] = "root_version_checked"

\* C6: in every run of OpenAndVerify, SafelyPersistRootMetadata is invoked
\* only after the new root has passed the signature check under the trusted
\* root, the signature check under itself and the version check; and a run
\* that returns non-Ok issues no manifest write, so the only backend state
\* it can have changed is a new root whose chain passed.
C6_PersistOnlyAfterChecks ==
    [][last_op' = "OpenAndVerify" =>
          /\ \A i \in 1..Len(calls') :
                 calls'[i] \in PersistCalls =>
                     /\ RootChecksBefore(calls', i)
                     /\ RootChainPasses(device_root, blob.root)
          /\ device_root' # device_root =>
                 /\ device_root' = blob.root
                 /\ Called(calls', "SafelyPersistRootMetadata")
          /\ \A i \in 1..Len(calls') : calls'[i] \notin ManifestWriteCalls
          /\ device_manifest' = device_manifest]_vars

\* A run that failed after it had persisted a new root.
C6_Witness ==
    /\ last_op = "OpenAndVerify" /\ last_status \notin {"Ok", kBackendError}
    /\ Called(calls, "SafelyPersistRootMetadata")
    /\ device_root = blob.root /\ prior_root # blob.root

\* C8: when the bundle's top-level targets metadata carries zero
\* signatures and a valid trust anchor is available, OpenAndVerify in normal
\* mode rejects the bundle with Unauthenticated, and in self-verification
\* mode targets verification is downgraded to Ok (payload verification
\* starts) and, the payloads verifying, OpenAndVerify returns Ok and
\* GetManifest succeeds.
C8_UnsignedTargets ==
    (/\ Opened /\ Called(calls, "VerifyTargetsMetadata")
     /\ trusted_root_.st = "Ok"
     /\ blob.targets.st = "Ok" /\ blob.targets.sigs = <<>>) =>
        IF disable_verification_
        THEN /\ Called(calls, "VerifyTargetsPayloads")
             /\ blob.targets.target_files = <<>> =>
                    /\ last_status = "Ok"
                    /\ GetManifest(bundle_verified_, bundle_status, blob).st
                           = "Ok"
        ELSE last_status = "Unauthenticated"

\* The new root of the bundle passes UpgradeRoot's checks under trusted.
ValidNewRoot(trusted, new_root) ==
    /\ VerifyRootMetadataSignatures(trusted, new_root) = "Ok"
    /\ VerifyRootMetadataSignatures(new_root, new_root) = "Ok"
    /\ ~RootRollback(GetMetadataVersion(trusted), GetMetadataVersion(new_root))

\* The places of the entries of c that are in the set xs.
Places(c, xs) == {i \in 1..Len(c) : c[i] \in xs}

\* C10: in normal mode, for a bundle carrying a valid new root,
\* OpenAndVerify issues exactly one SafelyPersistRootMetadata call with the
\* new root's bytes, before targets metadata verification starts, before
\* payload verification and before any manifest write; a later failure of
\* targets or payload verification does not undo it.
C10_RootPersistedOnceBeforeTargets ==
    (/\ Opened /\ ~disable_verification_
     /\ ~Called(calls, "GetRootMetadataReader_failed")
     /\ ValidNewRoot(prior_root, blob.root)) =>
        /\ Cardinality(Places(calls, PersistCalls)) = 1
        /\ \A i \in Places(calls, PersistCalls) :
               \A j \in Places(calls, {"VerifyTargetsMetadata",
                                       "VerifyTargetsPayloads"}
                                      \cup ManifestWriteCalls) : i < j
        /\ Called(calls, "SafelyPersistRootMetadata") =>
               /\ device_root = blob.root
               /\ Called(calls, "VerifyTargetsMetadata")

\* A valid new root stays persisted though targets verification then failed.
C10_Witness ==
    /\ Opened /\ ~disable_verification_
    /\ ValidNewRoot(prior_root, blob.root)
    /\ Called(calls, "SafelyPersistRootMetadata")
    /\ Called(calls, "VerifyTargetsMetadata")
    /\ ~Called(calls, "VerifyTargetsPayloads")
    /\ last_status = "Unauthenticated"
    /\ device_root = blob.root /\ prior_root # blob.root

\* Every signature of the list has a key id of kDigestSizeBytes bytes.
WellFormed(sigs) == \A i \in 1..Len(sigs) : sigs[i].size = kDigestSizeBytes

\* Every allowed key id that a signature of the list carries has an entry
\* in the key mapping.
AllowedKeysMapped(sigs, req, keys) ==
    \A i \in 1..Len(sigs) :
        sigs[i].key_id \in req.key_ids => keys[sigs[i].key_id] # 0

\* C7 as claimed: for a requirement with threshold t >= 1 and well-formed
\* signatures, VerifyMetadataSignatures returns Ok when exactly t of the
\* signatures carry an allowed key id and verify under the mapped key, and
\* a non-Ok status when only t-1 of them do.
C7_ThresholdBoundary ==
    (vm_out.done /\ vm_in.req.threshold >= 1 /\ WellFormed(vm_in.sigs)) =>
        LET valid == Cardinality(ValidSignatures(vm_in.sigs, vm_in.req,
                                                 vm_in.keys))
        IN  /\ valid = vm_in.req.threshold => vm_out.status = "Ok"
            /\ valid = vm_in.req.threshold - 1 => vm_out.status # "Ok"

\* C7, amended: for a requirement with threshold t >= 1, well-formed
\* signatures, and a key mapping that has an entry for every allowed key id
\* the signatures carry, VerifyMetadataSignatures returns Ok when exactly t
\* of the signatures carry an allowed key id and verify under the mapped
\* key, and a non-Ok status when only t-1 of them do.  (A signature with an
\* allowed key id that the mapping lacks ends the loop with an error, also
\* when t other signatures are valid.)
C7_ThresholdBoundaryMappedKeys ==
    (/\ vm_out.done /\ vm_in.req.threshold >= 1 /\ WellFormed(vm_in.sigs)
     /\ AllowedKeysMapped(vm_in.sigs, vm_in.req, vm_in.keys)) =>
        LET valid == Cardinality(ValidSignatures(vm_in.sigs, vm_in.req,
                                                 vm_in.keys))
        IN  /\ valid = vm_in.req.threshold => vm_out.status = "Ok"
            /\ valid = vm_in.req.threshold - 1 => vm_out.status # "Ok"

\* Exactly two valid signatures met a threshold of two.
C7_Witness ==
    /\ vm_out.done /\ vm_in.req.threshold = 2 /\ WellFormed(vm_in.sigs)
    /\ AllowedKeysMapped(vm_in.sigs, vm_in.req, vm_in.keys)
    /\ Cardinality(ValidSignatures(vm_in.sigs, vm_in.req, vm_in.keys)) = 2
    /\ vm_out.status = "Ok"

\* The statuses of an outcome of SpecSig.
Statuses(out) == <<out.status, out.normal, out.self>>

\* C9 as claimed: adding or removing well-formed signatures with
\* non-allowed key ids changes neither the status VerifyMetadataSignatures
\* returns nor the outcome of verification in normal or self-verification
\* mode.
C9_NotAllowedSignaturesIgnored ==
    [][(vm_out.done /\ vm_out'.done) =>
          Statuses(vm_out') = Statuses(vm_out)]_vars

\* C9, amended: adding or removing well-formed signatures with non-allowed
\* key ids changes neither the status VerifyMetadataSignatures returns nor
\* the outcome of targets verification in normal or self-verification mode,
\* provided the list holds at least one signature before and after.  (A
\* list of non-allowed signatures only is not an empty list: the first is
\* answered Unauthenticated, the second NotFound, which self-verification
\* accepts.)
C9_NotAllowedSignaturesIgnoredUnlessAlone ==
    [][(/\ vm_out.done /\ vm_out'.done
        /\ vm_in.sigs # <<>> /\ vm_in'.sigs # <<>>) =>
          Statuses(vm_out') = Statuses(vm_out)]_vars

\* A non-allowed signature was added to or removed from a list that met
\* its requirement all the same.
C9_Witness ==
    /\ vm_out.done /\ vm_out.edited /\ vm_out.status = "Ok"
    /\ \E i \in 1..Len(vm_in.sigs) : NotAllowed(vm_in.sigs[i], vm_in.req)

\* The steps of a manifest write, in the order PersistManifest takes them.
ManifestWriteSteps ==
    <<"BeforeManifestWrite", "GetManifestWriter", "Export",
      "AfterManifestWrite">>

\* C11: PersistManifest makes no backend call and returns
\* FailedPrecondition unless the accessor is verified; when verified it
\* calls BeforeManifestWrite, GetManifestWriter, the export and
\* AfterManifestWrite in that order, the first step to fail ends the
\* sequence and its status is returned unchanged; every manifest write
\* follows an OpenAndVerify that returned Ok with no Close in between.
C11_PersistManifestSequence ==
    last_op = "PersistManifest" =>
        /\ ~bundle_verified_ =>
               calls = <<>> /\ last_status = "FailedPrecondition"
        /\ bundle_verified_ =>
               \E n \in 1..Len(ManifestWriteSteps) :
                   /\ calls = SubSeq(ManifestWriteSteps, 1, n)
                   /\ last_status \in {"Ok", kBackendError}
                   /\ n < Len(ManifestWriteSteps) => last_status = kBackendError
        /\ calls # <<>> => ok_since_close

\* C12: Close in any reachable state leaves bundle_verified_ false and the
\* reader not open; a second consecutive Close returns Ok, closes the reader
\* no second time and leaves the accessor's state unchanged.
C12_CloseIdempotent ==
    [][last_op' = "Close" =>
          /\ ~bundle_verified_' /\ ~reader_open'
          /\ last_op = "Close" =>
                 /\ last_status' = "Ok"
                 /\ calls' = <<>>
                 /\ bundle_verified_' = bundle_verified_
                 /\ reader_open' = reader_open
                 /\ bundle_status' = bundle_status
                 /\ trusted_root_' = trusted_root_]_vars

\* A Close that found the reader of an opened accessor closed already.
C12_Witness ==
    /\ last_op = "Close" /\ calls = <<>> /\ bundle_status = "Ok"
    /\ ~bundle_verified_ /\ ~reader_open

\* No backend call of the log failed.
NoBackendFailure(c) ==
    \A i \in 1..Len(c) :
        c[i] \notin {"GetRootMetadataReader_failed",
                     "SafelyPersistRootMetadata_failed",
                     "BeforeManifestRead_failed"}

\* The status of OpenAndVerify run again, after Close, on the same bundle
\* and the backend as it is now, with no backend call failing.
RerunStatus ==
    DoVerify(blob, disable_verification_, personalization, device_root,
             device_manifest, "none").status

\* C13: OpenAndVerify, Close, OpenAndVerify on the same accessor and bundle
\* returns the same status both times, also when the first run persisted a
\* new root through the backend.
C13_RerunSameStatus ==
    (Opened /\ NoBackendFailure(calls)) => RerunStatus = last_status

\* new_root's signatures meet the root requirement of trusted and its own.
SignedBothWays(trusted, new_root) ==
    /\ trusted.st = "Ok" /\ new_root.st = "Ok"
    /\ MeetsRequirement(new_root.sigs, trusted.root_req, trusted.keys)
    /\ MeetsRequirement(new_root.sigs, new_root.root_req, new_root.keys)

\* C14: when the bundle's new root is validly signed under the trusted root
\* and under itself, a trusted root version strictly greater than the new
\* root's makes OpenAndVerify return Unauthenticated with
\* SafelyPersistRootMetadata never called; equal versions pass the version
\* check.
C14_RootRollbackRejected ==
    (/\ Opened /\ ~Called(calls, "GetRootMetadataReader_failed")
     /\ SignedBothWays(trusted_root_, blob.root)) =>
        LET trusted_version == GetMetadataVersion(trusted_root_)
            new_version == GetMetadataVersion(blob.root)
        IN  /\ trusted_version > new_version =>
                 /\ last_status = "Unauthenticated"
                 /\ Places(calls, PersistCalls) = {}
                 /\ ~Called(calls, "root_version_checked")
                 /\ device_root = prior_root
            /\ trusted_version = new_version =>
                 Called(calls, "root_version_checked")

\* A new root signed both ways and older than the on-device root was refused.
C14_Witness ==
    /\ Opened /\ ~disable_verification_
    /\ SignedBothWays(trusted_root_, blob.root)
    /\ GetMetadataVersion(trusted_root_) > GetMetadataVersion(blob.root)
    /\ last_status = "Unauthenticated"

\* The target files of the bundle's manifest as the accessor's bundle view
\* reads them: none when the view is not readable.
ManifestFiles ==
    IF bundle_status = "Ok" /\ blob.targets.st = "Ok"
    THEN blob.targets.target_files
    ELSE <<>>

\* Target file T passes every check of VerifyTargetsPayloads.
FileVerifies(T) ==
    /\ Len(T.file_name) <= MAX_TARGET_NAME_LENGTH
    /\ T.length <= MAX_TARGET_PAYLOAD_SIZE
    /\ InBundleMatch(T) \/ OnDeviceMatch(T)

\* The last OpenAndVerify ran VerifyTargetsPayloads with no backend failure,
\* and every target file before the i-th passed.
PayloadLoopReaches(i) ==
    /\ Opened /\ Called(calls, "VerifyTargetsPayloads")
    /\ NoBackendFailure(calls)
    /\ i \in 1..Len(ManifestFiles)
    /\ \A j \in 1..(i - 1) : FileVerifies(ManifestFiles[j])

\* C15: a target file that reaches the size check with a declared length of
\* MAX_TARGET_PAYLOAD_SIZE passes it, and one with MAX_TARGET_PAYLOAD_SIZE + 1
\* makes Verify fail with OutOfRange, whether or not its payload is in the
\* bundle and whether or not its hash matches.
C15_PayloadSizeBound ==
    \A i \in 1..MaxTargets :
        (/\ PayloadLoopReaches(i)
         /\ Len(ManifestFiles[i].file_name) <= MAX_TARGET_NAME_LENGTH) =>
            /\ ManifestFiles[i].length = MAX_TARGET_PAYLOAD_SIZE + 1 =>
                   last_status = "OutOfRange"
            /\ ManifestFiles[i].length = MAX_TARGET_PAYLOAD_SIZE =>
                   (last_status = "OutOfRange" =>
                        \E j \in (i + 1)..Len(ManifestFiles) :
                            ManifestFiles[j].length > MAX_TARGET_PAYLOAD_SIZE)

\* A target file one byte too large was refused though the bundle holds a
\* payload of that length and hash.
C15_Witness ==
    /\ PayloadLoopReaches(1)
    /\ ManifestFiles[1].length = MAX_TARGET_PAYLOAD_SIZE + 1
    /\ InBundleMatch(ManifestFiles[1])
    /\ last_status = "OutOfRange"

\* The lengths of the target files from the i-th on that have a payload in
\* the bundle, summed.
RECURSIVE SumOfBundledLengths(_, _)
SumOfBundledLengths(target_files, i) ==
    IF i > Len(target_files) THEN 0
    ELSE (IF PayloadOf(blob, target_files[i].file_name).present
          THEN target_files[i].length ELSE 0)
         + SumOfBundledLengths(target_files, i + 1)

\* C16: on a verified accessor GetTotalPayloadSize returns the sum, from 0,
\* of the declared lengths of the manifest's target files that have a
\* payload in the bundle; on an unverified accessor it returns an error and
\* no size.
C16_TotalPayloadSize ==
    last_op = "GetTotalPayloadSize" =>
        /\ (bundle_verified_ /\ last_status = "Ok") =>
               last_value.size = SumOfBundledLengths(ManifestFiles, 1)
        /\ (bundle_verified_ /\ bundle_status = "Ok") => last_status = "Ok"
        /\ ~bundle_verified_ => (last_status # "Ok" /\ last_value = NoValue)

C20_NameLengthBound ==
    \A i \in 1..MaxTargets :
        PayloadLoopReaches(i) =>
            LET T == ManifestFiles[i]
            IN  /\ Len(T.file_name) > MAX_TARGET_NAME_LENGTH =>
                       last_status = "OutOfRange"
                /\ Len(T.file_name) = MAX_TARGET_NAME_LENGTH =>
                       last_status # "ResourceExhausted"

\* C18: a signature requirement whose threshold is 0 or greater than the
\* number of its allowed key ids is rejected as malformed: with it
\* VerifyMetadataSignatures never returns Ok, whatever the signatures, and
\* reports Internal rather than Unauthenticated or NotFound.
C18_MalformedThresholdRejected ==
    (/\ vm_out.done
     /\ \/ vm_in.req.threshold = 0
        \/ vm_in.req.threshold > Cardinality(vm_in.req.key_ids)) =>
        vm_out.status = "Internal"

\* C19: in UpgradeRoot every non-Ok result of verifying the new root's
\* signatures under the current trusted root, and of verifying them under
\* the new root itself, makes OpenAndVerify fail with Unauthenticated, not
\* with NotFound or Internal.
C19_RootSignatureFailureUnauthenticated ==
    (/\ Opened /\ blob.root.st = "Ok" /\ trusted_root_.st = "Ok"
     /\ \/ VerifyRootMetadataSignatures(trusted_root_, blob.root) # "Ok"
        \/ VerifyRootMetadataSignatures(blob.root, blob.root) # "Ok") =>
        last_status = "Unauthenticated"

\* The status of the two signature checks UpgradeRoot makes on the incoming
\* root: under the trusted root, then under the incoming root itself.
RootSignatures ==
    LET by_trusted == VerifyRootMetadataSignatures(trusted_root_, blob.root)
    IN  IF by_trusted # "Ok" THEN by_trusted
        ELSE VerifyRootMetadataSignatures(blob.root, blob.root)

\* The last run checked the incoming root's signatures and a check failed.
RootSignaturesFail ==
    /\ Opened /\ blob.root.st = "Ok" /\ trusted_root_.st = "Ok"
    /\ RootSignatures # "Ok"

\* The status of the signature check VerifyTargetsMetadata makes.
TargetsSignatures ==
    VerifyMetadataSignatures(blob.targets.sigs, trusted_root_.targets_req,
                             trusted_root_.keys)

\* The last run checked the targets metadata's signatures, the check failed
\* and the failure is not the NotFound that self-verification tolerates.
TargetsSignaturesFail ==
    /\ Opened /\ Called(calls, "VerifyTargetsMetadata")
    /\ trusted_root_.st = "Ok" /\ blob.targets.st = "Ok"
    /\ TargetsSignatures # "Ok"
    /\ ~(disable_verification_ /\ TargetsSignatures = "NotFound")

\* The last run read the on-device manifest in the stage, with outcome x.
ManifestReadIn(stage, x) ==
    \E i \in 1..Len(calls) : \E j \in (i + 1)..Len(calls) :
        /\ calls[i] = stage /\ calls[j] = x
        /\ \A k \in (i + 1)..(j - 1) :
               calls[k] \notin {"VerifyTargetsMetadata", "VerifyTargetsPayloads"}

\* The on-device manifest read of the stage failed in the last run, the
\* backend call failing or the backend holding no readable manifest.
ManifestReadFails(stage) ==
    \/ ManifestReadIn(stage, "BeforeManifestRead_failed")
    \/ ManifestReadIn(stage, "BeforeManifestRead") /\ device_manifest.st # "Ok"

\* The status of the failed on-device manifest read of the stage.
ManifestReadStatus(stage) ==
    IF ManifestReadIn(stage, "BeforeManifestRead_failed") THEN kBackendError
    ELSE device_manifest.st

\* Every stage passed: the bundle's target files all verify.
AllFilesVerify ==
    \A i \in 1..Len(ManifestFiles) : FileVerifies(ManifestFiles[i])

\* C21 as claimed: every failure of an inner step of a Verify run (signature
\* verification, backend root read, backend manifest read, backend root
\* persist, payload check) makes OpenAndVerify return that same status and
\* close the accessor; only an absent incoming root and, in self-verification
\* mode, NotFound from the targets signature check are turned into Ok.
C21_FailuresReturnedUnchanged ==
    Opened =>
        /\ last_status # "Ok" => ~bundle_verified_ /\ ~reader_open
        /\ \/ Called(calls, "GetRootMetadataReader_failed")
           \/ Called(calls, "SafelyPersistRootMetadata_failed")
           => last_status = kBackendError
        /\ \A stage \in {"VerifyTargetsMetadata", "VerifyTargetsPayloads"} :
               ManifestReadFails(stage) =>
                   last_status = ManifestReadStatus(stage)
        /\ RootSignaturesFail => last_status = RootSignatures
        /\ TargetsSignaturesFail => last_status = TargetsSignatures
        /\ last_status = "Ok" => AllFilesVerify

\* C21 as the code has it: the failures of signature verification, of the
\* backend root read and persist and of the payload checks are returned
\* unchanged and close the accessor; a failed on-device manifest read is
\* returned unchanged from VerifyTargetsMetadata unless it is NotFound, which
\* skips the anti-rollback comparison and lets the run go on, and is
\* reported as Unauthenticated from the payload check of a target left out
\* of the bundle.
C21_FailuresReturnedOrReplaced ==
    Opened =>
        /\ last_status # "Ok" => ~bundle_verified_ /\ ~reader_open
        /\ \/ Called(calls, "GetRootMetadataReader_failed")
           \/ Called(calls, "SafelyPersistRootMetadata_failed")
           => last_status = kBackendError
        /\ ManifestReadFails("VerifyTargetsMetadata") =>
               IF ManifestReadStatus("VerifyTargetsMetadata") = "NotFound"
               THEN Called(calls, "VerifyTargetsPayloads")
               ELSE last_status = ManifestReadStatus("VerifyTargetsMetadata")
        /\ ManifestReadFails("VerifyTargetsPayloads") =>
               last_status = "Unauthenticated"
        /\ RootSignaturesFail => last_status = RootSignatures
        /\ TargetsSignaturesFail => last_status = TargetsSignatures
        /\ last_status = "Ok" => AllFilesVerify

\* A run whose on-device manifest read failed in the backend during the
\* payload check and that returned Unauthenticated.
C21_Witness ==
    /\ Opened
    /\ ManifestReadIn("VerifyTargetsPayloads", "BeforeManifestRead_failed")
    /\ last_status = "Unauthenticated"
    /\ ~bundle_verified_ /\ ~reader_open

\* C22: VerifyMetadataSignatures returns NotFound exactly when the signature
\* list is empty, so in self-verification mode targets metadata that carries
\* at least one signature is accepted only when its signatures verify, never
\* through the downgrade of NotFound.
C22_NotFoundOnlyWhenUnsigned ==
    vm_out.done =>
        /\ vm_out.status = "NotFound" <=> vm_in.sigs = <<>>
        /\ vm_in.sigs # <<>> /\ vm_out.self = "Ok" => vm_out.status = "Ok"

\* C23: trusted_root_ is assigned once in a Verify run, at the start of
\* UpgradeRoot (the bundle's root in self-verification mode, the on-device
\* root as read otherwise), and not replaced afterwards; in normal mode,
\* when the new root is accepted and persisted, the targets metadata is
\* still checked against the key mapping and the targets requirement of the
\* on-device root captured at the start.
C23_TargetsCheckedUnderCapturedRoot ==
    Opened =>
        /\ trusted_root_ =
               IF disable_verification_ THEN blob.root
               ELSE IF Called(calls, "GetRootMetadataReader_failed")
               THEN FailedRoot(kBackendError)
               ELSE prior_root
        /\ Called(calls, "SafelyPersistRootMetadata") =>
               LET captured == VerifyMetadataSignatures(
                                   blob.targets.sigs, prior_root.targets_req,
                                   prior_root.keys)
               IN  /\ ~disable_verification_ /\ device_root = blob.root
                   /\ blob.targets.st = "Ok" /\ captured # "Ok" =>
                          last_status = captured
                   /\ last_status = "Ok" => captured = "Ok"

\* A run that persisted a new root giving the targets role to another key,
\* and rejected targets metadata signed for the new root's targets role.
C23_Witness ==
    /\ Opened /\ Called(calls, "SafelyPersistRootMetadata")
    /\ device_root.targets_req # prior_root.targets_req
    /\ VerifyMetadataSignatures(blob.targets.sigs, device_root.targets_req,
                                device_root.keys) = "Ok"
    /\ last_status = "Unauthenticated"

\* The marks UpgradeRoot leaves once it goes on to upgrade the root.
UpgradeMarks ==
    {"root_signed_by_trusted", "root_signed_by_self", "root_version_checked"}
        \cup PersistCalls

\* C24: when the bundle's incoming root is absent or malformed, UpgradeRoot
\* returns Ok with no signature check, no version check and no call of
\* SafelyPersistRootMetadata, and the on-device root stays as it was; this
\* holds even when loading the on-device root failed, and that failure then
\* surfaces only from the targets verification, in normal mode.
C24_NoUpgradeWithoutIncomingRoot ==
    (Opened /\ blob.root.st # "Ok") =>
        /\ Called(calls, "VerifyTargetsMetadata")
        /\ \A i \in 1..Len(calls) : calls[i] \notin UpgradeMarks
        /\ device_root = prior_root
        /\ Called(calls, "GetRootMetadataReader_failed") =>
               /\ ~disable_verification_
               /\ calls[Len(calls)] = "VerifyTargetsMetadata"
               /\ last_status = kBackendError

\* A run on a bundle without an incoming root in which loading the
\* on-device root failed and the targets verification reported it.
C24_Witness ==
    /\ Opened /\ blob.root.st # "Ok"
    /\ calls = <<"UpgradeRoot", "GetRootMetadataReader_failed",
                 "VerifyTargetsMetadata">>
    /\ last_status = kBackendError
    /\ device_root = prior_root

\* C25: in self-verification mode a Verify run never calls
\* GetRootMetadataReader, never calls SafelyPersistRootMetadata and never
\* makes the anti-rollback comparison of the targets metadata; the bundle's
\* own root is the trust anchor, and when the bundle has no usable root the
\* targets signature check is skipped and VerifyTargetsMetadata returns Ok.
C25_SelfVerificationLeavesBackendAlone ==
    (Opened /\ disable_verification_) =>
        /\ \A i \in 1..Len(calls) :
               calls[i] \notin {"GetRootMetadataReader",
                                "GetRootMetadataReader_failed"}
                                   \cup PersistCalls
        /\ ~ManifestReadIn("VerifyTargetsMetadata", "BeforeManifestRead")
        /\ ~ManifestReadIn("VerifyTargetsMetadata",
                           "BeforeManifestRead_failed")
        /\ trusted_root_ = blob.root
        /\ device_root = prior_root
        /\ blob.root.st # "Ok" =>
               /\ Called(calls, "VerifyTargetsPayloads")
               /\ last_status \notin {"Unauthenticated", kBackendError}

\* A self-verifying run on a bundle without a root whose targets metadata
\* is older than the on-device manifest, and that returned Ok.
C25_Witness ==
    /\ Opened /\ disable_verification_
    /\ blob.root.st # "Ok" /\ blob.targets.st = "Ok"
    /\ device_manifest.st = "Ok"
    /\ device_manifest.version > blob.targets.version
    /\ last_status = "Ok"

\* The signatures among the first n of the list that carry an allowed key
\* id and verify under the mapped key, each position counted for itself.
ValidAmongFirst(n) ==
    {i \in ValidSignatures(vm_in.sigs, vm_in.req, vm_in.keys) : i <= n}

\* The loop passes the first n signatures without an error: each is
\* well-formed and each allowed key id among them is mapped.
PassesFirst(n) ==
    /\ WellFormed(SubSeq(vm_in.sigs, 1, n))
    /\ AllowedKeysMapped(SubSeq(vm_in.sigs, 1, n), vm_in.req, vm_in.keys)

\* C26: signatures with the same key id are counted each for itself, so k
\* copies of one valid signature of one allowed key meet a threshold of k,
\* and once the count of verified signatures reaches the threshold
\* VerifyMetadataSignatures returns Ok whatever the later signatures are.
C26_DuplicatesCountedEarlyReturn ==
    vm_out.done =>
        \A n \in 1..Len(vm_in.sigs) :
            (/\ vm_in.req.threshold >= 1
             /\ PassesFirst(n)
             /\ Cardinality(ValidAmongFirst(n)) = vm_in.req.threshold) =>
                vm_out.status = "Ok"

\* VerifyMetadataSignatures returned Ok for a threshold of two on two copies
\* of one signature.
C26_Witness ==
    /\ vm_out.done /\ vm_out.status = "Ok"
    /\ vm_in.req.threshold = 2 /\ Len(vm_in.sigs) = 2
    /\ vm_in.sigs[1] = vm_in.sigs[2]

===========================================================================
